---- MODULE Spec2Model ----
(***************************************************************************)
(* Imaging conditions and linearized sources of src/pysource/sensitivity.py *)
(*                                                                         *)
(* The module builds symbolic expressions.  A field is modelled by the     *)
(* values it and its derivatives take at one sample point of a grid with   *)
(* one space dimension: val (the field), dt2 (second time derivative) and  *)
(* dx (space derivative), so grad(u).T * grad(v) is u.dx * v.dx.  The      *)
(* density is the reciprocal of the integer irho, so that dt / rho is the  *)
(* integer dt * irho.  Frequency-domain expressions stay symbolic: a       *)
(* record of the operands the formula was built from.                      *)
(***************************************************************************)
EXTENDS Integers, Sequences, FiniteSets, TLC

VARIABLES model, u, v, gradm0, gradm, sumc, nupd, pending, last

vars == <<model, u, v, gradm0, gradm, sumc, nupd, pending, last>>

(* ---- bounds ---- *)
MaxVal == 1
MaxM == 2
MaxDm == 1
MaxDt == 1
MaxInit == 1
MaxUpdates == 2
MaxW == 2
MaxSub == 2
MaxFreq == 1

(* ---- values ---- *)
None == [none |-> TRUE, val |-> 0]

Some(x) == [none |-> FALSE, val |-> x]

NoFreq == [none |-> TRUE, data |-> <<>>]

FreqArray(n) == [none |-> FALSE, data |-> [i \in 1..n |-> i]]

FreqArrays == {NoFreq} \cup {FreqArray(n) : n \in 0..MaxFreq}

Fields == [val : 1..MaxVal, dt2 : (0 - MaxVal)..MaxVal, dx : 0..MaxVal]

Single(f) == [tup |-> FALSE, fs |-> <<f>>]

Pair(f, g) == [tup |-> TRUE, fs |-> <<f, g>>]

Singles == {Single(f) : f \in Fields}

Pairs == {Pair(f, g) : f \in Fields, g \in Fields}

Wavefields == Singles \cup Pairs

Models == [m : 1..MaxM, irho : 1..MaxM, dm : 0..MaxDm, dt : 1..MaxDt]

Weights == {Some(x) : x \in 1..MaxW}

SubFactors == {None} \cup {Some(x) : x \in 1..MaxSub}

NoExpr == [form |-> "none", val |-> 0, ops |-> <<>>, f |-> <<>>, sub |-> None]

Ok(e, ev) == [status |-> "ok", err |-> "none", events |-> ev, expr |-> e]

Err(kind, ev) == [status |-> "error", err |-> kind, events |-> ev, expr |-> NoExpr]

SubTime(arg) == [call |-> "sub_time", arg |-> arg, n |-> 0]

NewFunction(n) == [call |-> "Function", arg |-> None, n |-> n]

(* func_name with the two frequency branches exchanged. *)
func_name_swapped(freq, isic) ==
  IF freq.none
  THEN (IF isic THEN "isic" ELSE "corr")
  ELSE (IF isic THEN "corr_freq" ELSE "isic_freq")

(* ---- func_name ---- *)
func_name(freq, isic) ==
  IF freq.none
  THEN (IF isic THEN "isic" ELSE "corr")
  ELSE (IF isic THEN "isic_freq" ELSE "corr_freq")

IsPair(x) == x.tup /\ Len(x.fs) = 2

as_tuple(x) == x.fs

(* ---- imaging conditions ---- *)
(* factor is the keyword grad_expr passes; corr_freq has no parameter of   *)
(* that name, so it lands in **kwargs and is never read.  The steps run in *)
(* source order: sub_time, the unpacking ufr, ufi = u, freq.shape[0], then *)
(* Function(shape=(nfreq,)); nothing checks nfreq, so a zero-length        *)
(* coefficient field is constructed like any other.                        *)
corr_freq(fu, fv, mdl, freq, dft_sub, factor) ==
  LET ev1 == <<SubTime(dft_sub)>>
  IN IF ~IsPair(fu) THEN Err("unpack", ev1)
     ELSE IF freq.none THEN Err("attribute", ev1)
     ELSE LET nfreq == Len(freq.data)
          IN Ok([form |-> "corr_freq", val |-> 0,
                 ops |-> <<fu.fs[1], fu.fs[2], fv.fs[1]>>,
                 f |-> freq.data, sub |-> dft_sub],
                Append(ev1, NewFunction(nfreq)))

(* corr_fields without the leading minus sign. *)
corr_fields_nosign(fu, fv, mdl, w) ==
  LET wt == IF w.none THEN mdl.dt * mdl.irho ELSE w.val
  IN IF fu.tup THEN Err("attribute", <<>>)
     ELSE Ok([form |-> "corr", val |-> wt * fv.fs[1].val * fu.fs[1].dt2,
              ops |-> <<fu.fs[1], fv.fs[1]>>, f |-> <<>>, sub |-> None], <<>>)

corr_fields(fu, fv, mdl, w) ==
  LET wt == IF w.none THEN mdl.dt * mdl.irho ELSE w.val
  IN IF fu.tup THEN Err("attribute", <<>>)
     ELSE Ok([form |-> "corr", val |-> (0 - wt) * fv.fs[1].val * fu.fs[1].dt2,
              ops |-> <<fu.fs[1], fv.fs[1]>>, f |-> <<>>, sub |-> None], <<>>)

isic_g(fu, fv, mdl) ==
  LET wt == mdl.dt * mdl.irho
  IN IF fu.tup THEN Err("type", <<>>)
     ELSE Ok([form |-> "isic",
              val |-> wt * (fu.fs[1].val * fv.fs[1].dt2 * mdl.m
                            + fu.fs[1].dx * fv.fs[1].dx),
              ops |-> <<fu.fs[1], fv.fs[1]>>, f |-> <<>>, sub |-> None], <<>>)

isic_freq_g(fu, fv, mdl, freq, factor) ==
  LET ev1 == <<SubTime(factor)>>
  IN IF ~IsPair(fu) THEN Err("unpack", ev1)
     ELSE IF freq.none THEN Err("attribute", ev1)
     ELSE LET nfreq == Len(freq.data)
          IN Ok([form |-> "isic_freq", val |-> 0,
                 ops |-> <<fu.fs[1], fu.fs[2], fv.fs[1]>>,
                 f |-> freq.data, sub |-> factor],
                Append(ev1, NewFunction(nfreq)))

ic_dict ==
  [k \in {"isic_freq", "corr_freq", "isic", "corr"} |->
     CASE k = "isic_freq" -> "isic_freq_g"
       [] k = "corr_freq" -> "corr_freq"
       [] k = "isic" -> "isic_g"
       [] OTHER -> "corr_fields"]

(* ic_func(u, v, model, freq=freq, factor=dft_sub): the keywords reach each *)
(* formula as its signature binds them; w is not among them.               *)
ic_call(fn, fu, fv, mdl, freq, factor) ==
  CASE fn = "isic_freq_g" -> isic_freq_g(fu, fv, mdl, freq, factor)
    [] fn = "corr_freq" -> corr_freq(fu, fv, mdl, freq, None, factor)
    [] fn = "isic_g" -> isic_g(fu, fv, mdl)
    [] OTHER -> corr_fields(fu, fv, mdl, None)

(* ---- grad_expr ---- *)
(* The update equation without the + gradm term. *)
MakeEq_overwrite(expr) == [lhs |-> "gradm", expr |-> expr, plus |-> "nothing"]

MakeEq(expr) == [lhs |-> "gradm", expr |-> expr, plus |-> "gradm"]

grad_expr(gu, gv, mdl, w, freq, dft_sub, isic) ==
  LET key == func_name(freq, isic)
  IN IF key \notin DOMAIN ic_dict
     THEN [key |-> key, fn |-> "none", res |-> Err("KeyError", <<>>), eqs |-> <<>>]
     ELSE LET fn == ic_dict[key]
              res == ic_call(fn, Single(as_tuple(gu)[1]), Single(as_tuple(gv)[1]),
                             mdl, freq, dft_sub)
          IN [key |-> key, fn |-> fn, res |-> res,
              eqs |-> IF res.status = "ok" THEN <<MakeEq(res.expr)>> ELSE <<>>]

(* ---- linearized sources ---- *)
SrcOk(isTup, out) == [status |-> "ok", err |-> "none", tup |-> isTup, out |-> out]

SrcErr(kind) == [status |-> "error", err |-> kind, tup |-> FALSE, out |-> <<>>]

(* basic_src taking both components from the first sub-field. *)
basic_src_mixed(mdl, su) ==
  LET w == (0 - mdl.dm) * mdl.irho
  IN IF su.tup
     THEN SrcOk(TRUE, <<[form |-> "basic", val |-> w * su.fs[1].dt2],
                        [form |-> "basic", val |-> w * su.fs[1].dt2]>>)
     ELSE SrcOk(FALSE, <<[form |-> "basic", val |-> w * su.fs[1].dt2]>>)

basic_src(mdl, su) ==
  LET w == (0 - mdl.dm) * mdl.irho
  IN IF su.tup
     THEN SrcOk(TRUE, <<[form |-> "basic", val |-> w * su.fs[1].dt2],
                        [form |-> "basic", val |-> w * su.fs[2].dt2]>>)
     ELSE SrcOk(FALSE, <<[form |-> "basic", val |-> w * su.fs[1].dt2]>>)

(* val is the leading term dm * irho * u.dt2 * m; du_aux stays symbolic.   *)
isic_s(mdl, su) ==
  IF su.tup THEN SrcErr("attribute")
  ELSE SrcOk(FALSE, <<[form |-> "isic_s",
                       val |-> mdl.dm * mdl.irho * su.fs[1].dt2 * mdl.m]>>)

ls_dict ==
  [k \in {"isic", "corr"} |-> IF k = "isic" THEN "isic_s" ELSE "basic_src"]

(* The key of lin_src derived with a frequency array present. *)
lin_src_key_freq(isic) == func_name(FreqArray(1), isic)

lin_src_key(isic) == func_name(NoFreq, isic)

lin_src(mdl, su, isic) ==
  LET key == lin_src_key(isic)
  IN IF key \notin DOMAIN ls_dict
     THEN [key |-> key, fn |-> "none", res |-> SrcErr("KeyError")]
     ELSE LET fn == ls_dict[key]
          IN [key |-> key, fn |-> fn,
              res |-> IF fn = "isic_s" THEN isic_s(mdl, su) ELSE basic_src(mdl, su)]

(* ---- state machine ---- *)
Idle == [op |-> "idle"]

Fresh ==
  /\ gradm = gradm0
  /\ sumc = 0
  /\ nupd = 0
  /\ pending = <<>>
  /\ last = Idle

(* Models whose perturbation dm is zero: the imaging conditions never read dm. *)
ImagingModels == {mm \in Models : mm.dm = 0}

(* Wavefields whose components are constant in time and space. *)
IsConstant(x) == \A i \in 1..Len(x.fs) : x.fs[i].dt2 = 0 /\ x.fs[i].dx = 0

GradExprOn(freqs, subs) ==
  \E w \in Weights, freq \in freqs, dft_sub \in subs, isic \in BOOLEAN :
    /\ nupd < MaxUpdates
    /\ last' = [op |-> "grad_expr",
                args |-> [w |-> w, freq |-> freq, dft_sub |-> dft_sub, isic |-> isic],
                ret |-> grad_expr(u, v, model, w, freq, dft_sub, isic)]
    /\ pending' = last'.ret.eqs
    /\ UNCHANGED <<model, u, v, gradm0, gradm, sumc, nupd>>

(* grad_expr without a frequency array: the time-domain imaging conditions. *)
GradExprTime == GradExprOn({NoFreq}, {None})

GradExpr == GradExprOn(FreqArrays, SubFactors)

(* The solver executes the pending equation gradm := expr + gradm. *)
ApplyUpdate ==
  /\ pending # <<>>
  /\ gradm' = pending[1].expr.val + (IF pending[1].plus = "gradm" THEN gradm ELSE 0)
  /\ sumc' = sumc + last.ret.res.expr.val
  /\ nupd' = nupd + 1
  /\ last' = [op |-> "apply", contribution |-> last.ret.res.expr.val, before |-> gradm]
  /\ pending' = <<>>
  /\ UNCHANGED <<model, u, v, gradm0>>

Call(op, args, ret) ==
  /\ last' = [op |-> op, args |-> args, ret |-> ret]
  /\ UNCHANGED <<model, u, v, gradm0, gradm, sumc, nupd, pending>>

LinSrc ==
  \E isic \in BOOLEAN :
    Call("lin_src", [isic |-> isic], lin_src(model, u, isic))

CorrFields ==
  \E w \in {None} \cup Weights :
    Call("corr_fields", [w |-> w], corr_fields(u, v, model, w))

IsicG == Call("isic_g", [w |-> None], isic_g(u, v, model))

CorrFreq ==
  \E freq \in FreqArrays, dft_sub \in SubFactors :
    Call("corr_freq", [freq |-> freq, dft_sub |-> dft_sub],
         corr_freq(u, v, model, freq, dft_sub, None))

IsicFreqG ==
  \E freq \in FreqArrays, factor \in SubFactors :
    Call("isic_freq_g", [freq |-> freq, dft_sub |-> factor],
         isic_freq_g(u, v, model, freq, factor))

BasicSrc == Call("basic_src", [isic |-> FALSE], basic_src(model, u))

IsicS == Call("isic_s", [isic |-> TRUE], isic_s(model, u))

(* ---- gradient accumulation with the time-domain imaging conditions ---- *)
Init ==
  /\ model \in ImagingModels
  /\ u \in Singles
  /\ v \in Singles
  /\ gradm0 \in 0..MaxInit
  /\ Fresh

Next == GradExprTime \/ ApplyUpdate

Spec == Init /\ [][Next]_vars

(* ---- dispatch of grad_expr and lin_src, every option, constant fields ---- *)
InitDispatch ==
  /\ model \in Models
  /\ u \in {x \in Wavefields : IsConstant(x)}
  /\ v \in {x \in Singles : IsConstant(x)}
  /\ gradm0 = 0
  /\ Fresh

NextDispatch == GradExpr \/ LinSrc

DispatchSpec == InitDispatch /\ [][NextDispatch]_vars

(* ---- the time-domain formulas called directly ---- *)
InitTime ==
  /\ model \in ImagingModels
  /\ u \in Singles
  /\ v \in Singles
  /\ gradm0 = 0
  /\ Fresh

NextTime == CorrFields \/ IsicG

TimeSpec == InitTime /\ [][NextTime]_vars

(* ---- the frequency-domain formulas called directly ---- *)
InitFreq ==
  /\ model \in ImagingModels
  /\ u \in Wavefields
  /\ v \in Singles
  /\ gradm0 = 0
  /\ Fresh

NextFreq == CorrFreq \/ IsicFreqG

FreqSpec == InitFreq /\ [][NextFreq]_vars

(* ---- the linearized sources called directly ---- *)
InitSrc ==
  /\ model \in Models
  /\ u \in Wavefields
  /\ v \in {x \in Singles : IsConstant(x)}
  /\ gradm0 = 0
  /\ Fresh

NextSrc == BasicSrc \/ IsicS

SrcSpec == InitSrc /\ [][NextSrc]_vars

(* ---- properties ---- *)
IsGradCall == last.op = "grad_expr"

FreqKeys == {"isic_freq", "corr_freq"}

(* C1: for each (freq supplied, isic) grad_expr derives the key of the table  *)
(* (isic_freq, corr_freq, isic, corr); the four keys are distinct, each is in *)
(* ic_dict, ic_dict maps them to four distinct formulas, and the lookup never *)
(* misses.                                                                   *)
C1_KeyTable ==
  /\ Cardinality(DOMAIN ic_dict) = 4
  /\ Cardinality({ic_dict[k] : k \in DOMAIN ic_dict}) = 4
  /\ IsGradCall =>
       /\ last.ret.key =
            (CASE ~last.args.freq.none /\ last.args.isic -> "isic_freq"
               [] ~last.args.freq.none /\ ~last.args.isic -> "corr_freq"
               [] last.args.freq.none /\ last.args.isic -> "isic"
               [] OTHER -> "corr")
       /\ last.ret.key \in DOMAIN ic_dict
       /\ last.ret.fn =
            (CASE last.ret.key = "isic_freq" -> "isic_freq_g"
               [] last.ret.key = "corr_freq" -> "corr_freq"
               [] last.ret.key = "isic" -> "isic_g"
               [] OTHER -> "corr_fields")
       /\ last.ret.res.err # "KeyError"

C1_Witness ==
  /\ IsGradCall
  /\ ~last.args.freq.none
  /\ last.args.isic
  /\ last.ret.key = "isic_freq"
  /\ last.ret.fn = "isic_freq_g"

(* C2: grad_expr returns one equation gradm := formula result + gradm, so the *)
(* gradient field always equals its initial value plus the sum of the         *)
(* contributions applied so far, each update adding to the value before it.   *)
C2_Additive ==
  /\ gradm = gradm0 + sumc
  /\ (IsGradCall /\ last.ret.res.status = "ok") =>
       /\ Len(last.ret.eqs) = 1
       /\ last.ret.eqs[1].lhs = "gradm"
       /\ last.ret.eqs[1].plus = "gradm"
       /\ last.ret.eqs[1].expr = last.ret.res.expr
  /\ last.op = "apply" => gradm = last.before + last.contribution

C2_Witness ==
  /\ last.op = "apply"
  /\ nupd = 2
  /\ last.contribution # 0
  /\ last.before = gradm0 + last.contribution
  /\ gradm = gradm0 + 2 * last.contribution

(* C3: with a frequency array and u given as the pair (u_real, u_imag),       *)
(* grad_expr succeeds and the contribution is the frequency-domain formula    *)
(* built from both components of the pair.                                   *)
C3_PairReachesFormula ==
  (IsGradCall /\ ~last.args.freq.none /\ IsPair(u)) =>
    /\ last.ret.res.status = "ok"
    /\ last.ret.res.expr.form \in FreqKeys
    /\ last.ret.res.expr.ops = <<u.fs[1], u.fs[2], v.fs[1]>>

(* C4: with a frequency array, sub_time is called with the dft_sub given to   *)
(* grad_expr, under the key corr_freq and under the key isic_freq.            *)
C4_SubFactorReachesSubTime ==
  (IsGradCall /\ ~last.args.freq.none) =>
    /\ Len(last.ret.res.events) >= 1
    /\ last.ret.res.events[1] = SubTime(last.args.dft_sub)

(* C5: under the key corr the contribution is -w * v * u.dt2 with the weight  *)
(* w given to grad_expr.                                                     *)
C5_WeightUsed ==
  (IsGradCall /\ last.ret.key = "corr" /\ last.ret.res.status = "ok") =>
    last.ret.res.expr.val =
      (0 - last.args.w.val) * as_tuple(v)[1].val * as_tuple(u)[1].dt2

(* C6: a frequency array of length 0 makes a frequency-domain formula fail    *)
(* before any coefficient field is constructed; no expression is returned.    *)
C6_EmptyFreqFailsFast ==
  (/\ last.op \in {"corr_freq", "isic_freq_g"}
   /\ ~last.args.freq.none
   /\ Len(last.args.freq.data) = 0) =>
    /\ last.ret.status = "error"
    /\ \A i \in 1..Len(last.ret.events) : last.ret.events[i].call # "Function"

(* C7: a frequency-domain formula given a single field as u fails before the  *)
(* subsampling collaborator is consulted and before any field is built.       *)
C7_ShapeCheckedFirst ==
  (last.op \in {"corr_freq", "isic_freq_g"} /\ ~IsPair(u)) =>
    /\ last.ret.status = "error"
    /\ last.ret.events = <<>>

(* C8: lin_src selects by the isic flag alone: isic_s for isic, basic_src     *)
(* otherwise; its key is isic or corr, never a frequency key, and the lookup  *)
(* in ls_dict never misses.                                                  *)
C8_LinSrcKey ==
  last.op = "lin_src" =>
    /\ last.ret.key = (IF last.args.isic THEN "isic" ELSE "corr")
    /\ last.ret.key \notin FreqKeys
    /\ last.ret.key \in DOMAIN ls_dict
    /\ last.ret.fn = (IF last.args.isic THEN "isic_s" ELSE "basic_src")
    /\ last.ret.res.err # "KeyError"

C8_Witness ==
  /\ last.op = "lin_src"
  /\ last.args.isic
  /\ last.ret.fn = "isic_s"
  /\ last.ret.res.status = "ok"

GradDot == u.fs[1].dx * v.fs[1].dx

UnitModel == model.m = 1 /\ model.irho = 1

CorrEqualsIsic ==
  /\ last.op = "corr_fields"
  /\ last.args.w.none
  /\ last.ret.status = "ok"
  /\ last.ret.expr.val = isic_g(u, v, model).expr.val

(* C9 as stated: with m = 1 and rho = 1, corr = isic implies                  *)
(* grad(u).grad(v) = 0.                                                      *)
C9_EqualOnlyWithoutGradient ==
  (UnitModel /\ CorrEqualsIsic) => GradDot = 0

(* C9 amended: with m = 1 and rho = 1, corr = isic exactly when               *)
(* grad(u).grad(v) = -(v * u.dt2 + u * v.dt2).                                *)
C9_EqualIffGradientBalances ==
  (UnitModel /\ last.op = "corr_fields" /\ last.args.w.none) =>
    (CorrEqualsIsic <=>
       GradDot = 0 - (v.fs[1].val * u.fs[1].dt2 + u.fs[1].val * v.fs[1].dt2))

C9_Witness ==
  /\ UnitModel
  /\ CorrEqualsIsic
  /\ GradDot # 0
  /\ last.ret.expr.val # 0

SrcWeight == (0 - model.dm) * model.irho

(* C10: basic_src on a pair returns the pair of basic_src on each sub-field,  *)
(* each (-dm * irho) times that sub-field's second time derivative; on a      *)
(* single field it returns the single expression -dm * irho * u.dt2.          *)
C10_Elementwise ==
  last.op = "basic_src" =>
    /\ last.ret.status = "ok"
    /\ last.ret.tup = u.tup
    /\ Len(last.ret.out) = Len(u.fs)
    /\ \A i \in 1..Len(u.fs) :
         /\ last.ret.out[i] = basic_src(model, Single(u.fs[i])).out[1]
         /\ last.ret.out[i].val = SrcWeight * u.fs[i].dt2

C10_Witness ==
  /\ last.op = "basic_src"
  /\ IsPair(u)
  /\ model.dm # 0
  /\ Len(last.ret.out) = 2
  /\ last.ret.out[1].val # last.ret.out[2].val
====
